---- MODULE Spec2Model ----
(***************************************************************************)
(* Model of src/main.cc: the entry procedure that builds a fixed flag      *)
(* list, asks the compiler toolchain to parse argv[1] as "input.cc",       *)
(* bails out with status 1 on a null handle or on an uncompilable error,   *)
(* and otherwise dumps the translation unit and falls off the end of main  *)
(* (status 0).  The toolchain (clang) is outside the repository: what it   *)
(* returns and prints is a nondeterministic choice.                        *)
(***************************************************************************)
EXTENDS Integers, Sequences, FiniteSets, TLC

VARIABLES
    argc,    \* main's first parameter
    argv,    \* main's second parameter: argv[0] .. argv[argc-1], as a sequence
    Args,    \* the std::vector<std::string> of compiler flags
    code,    \* the pointer handed to buildASTFromCodeWithArgs as the source text
    AST,     \* the std::unique_ptr<ASTUnit>: <<>> is null, <<h>> owns handle h
    out,     \* everything written by the process, in order
    steps,   \* the statements of main executed so far, in order
    exit,    \* <<>> while the process runs, <<n>> once main has returned n
    pc       \* the statement main executes next

vars == <<argc, argv, Args, code, AST, out, steps, exit, pc>>

----------------------------------------------------------------------------
(* Bounds of the model. *)

\* longest source text
MaxSrcLen == 2
\* largest argc
MaxArgc == 3
\* most warnings, and most errors, the toolchain reports for one source text
MaxDiags == 2
\* most top-level declarations of a parsed translation unit
MaxDecls == 2

----------------------------------------------------------------------------
(* Values. *)

Chars == {"a", "b"}

\* Source texts: the strings of at most MaxSrcLen characters.
Sources == UNION {[1..n -> Chars] : n \in 0..MaxSrcLen}

\* A char*: a pointer to a string, the null pointer, or an indeterminate value
\* read past the end of the argv array.
Str(s) == [kind |-> "str", text |-> s]
Null == [kind |-> "null", text |-> <<>>]
Wild == [kind |-> "wild", text |-> <<>>]

\* The argument vectors of n entries: the program name, then the source text,
\* then further arguments.
ArgVectors(n) ==
    {[i \in 1..n |-> IF i = 1 THEN Str(<<"p">>)
                     ELSE IF i = 2 THEN Str(s)
                     ELSE Str(<<>>)] : s \in Sources}

\* argv[i] as C reads it: argv[argc] is the null pointer, and anything past
\* it lies outside the array.
ArgvAt(i) ==
    IF i < argc THEN argv[i + 1]
    ELSE IF i = argc THEN Null
    ELSE Wild

\* The state of a DiagnosticsEngine after a parse: an uncompilable error is
\* an error.
DiagStates ==
    {d \in [warnings : 0..MaxDiags, errors : 0..MaxDiags, uncompilable : BOOLEAN] :
        d.uncompilable => d.errors > 0}

\* An ASTUnit: its diagnostics and its translation unit.
Handles == [diags : DiagStates, children : 0..MaxDecls]

\* What the toolchain can hand back: no handle (after printing any number of
\* diagnostics), or a handle whose diagnostics have all been printed.
ParseResults ==
    {[ast |-> <<>>, printed |-> k] : k \in 0..MaxDiags}
    \cup {[ast |-> <<h>>, printed |-> h.diags.warnings + h.diags.errors] : h \in Handles}

getDiagnostics(h) == h.diags

hasUncompilableErrorOccurred(d) == d.uncompilable

\* n output events written by the toolchain while main executes step number at.
Printed(n, at) == [i \in 1..n |-> [by |-> "toolchain", what |-> "diagnostic", at |-> at]]

\* How often main has executed statement s.
Count(s) == Cardinality({i \in DOMAIN steps : steps[i] = s})

\* The position of the first execution of statement s (0: never).
FirstAt(s) ==
    IF \E i \in DOMAIN steps : steps[i] = s
    THEN CHOOSE i \in DOMAIN steps : steps[i] = s /\ \A j \in 1..(i - 1) : steps[j] # s
    ELSE 0

----------------------------------------------------------------------------
(* The program. *)

Init ==
    /\ argc \in 0..MaxArgc
    /\ argv \in ArgVectors(argc)
    /\ Args = <<>>
    /\ code = Null
    /\ AST = <<>>
    /\ out = <<>>
    /\ steps = <<>>
    /\ exit = <<>>
    /\ pc = "args"

\* std::vector<std::string> Args { "-std=c++20", "-Wall" };
BuildArgs ==
    /\ pc = "args"
    /\ Args' = <<"-std=c++20", "-Wall">>
    /\ steps' = Append(steps, "args")
    /\ pc' = "parse"
    /\ UNCHANGED <<argc, argv, code, AST, out, exit>>

\* The toolchain returns r, having printed r.printed diagnostics during the call.
Returns(r) ==
    /\ AST' = r.ast
    /\ out' = out \o Printed(r.printed, Len(steps) + 1)
    /\ pc' = "checkNull"
    /\ exit' = exit

\* The call never returns: the process dies inside it.
Crashes ==
    /\ pc' = "crashed"
    /\ UNCHANGED <<AST, out, exit>>

\* BuildAST behind a guard on argc: with no source argument main ends in a
\* usage error (status 2) and the parse call is never made.
BuildAST_ArgcGuard ==
    /\ pc = "parse"
    /\ IF argc < 2
       THEN /\ exit' = <<2>>
            /\ pc' = "exited"
            /\ UNCHANGED <<code, steps, AST, out>>
       ELSE /\ code' = ArgvAt(1)
            /\ steps' = Append(steps, "parse")
            /\ \E r \in ParseResults : Returns(r)
    /\ UNCHANGED <<argc, argv, Args>>

\* AST = tooling::buildASTFromCodeWithArgs(argv[1], Args, "input.cc", CLANG_PATH);
\* argv[1] is read whatever argc is.  A null or indeterminate pointer as the
\* source text is undefined behaviour: the call crashes, or reads some bytes
\* as the text and returns as for any text.
BuildAST ==
    /\ pc = "parse"
    /\ code' = ArgvAt(1)
    /\ steps' = Append(steps, "parse")
    /\ IF code'.kind = "str"
       THEN \E r \in ParseResults : Returns(r)
       ELSE Crashes \/ \E r \in ParseResults : Returns(r)
    /\ UNCHANGED <<argc, argv, Args>>

\* CheckNull with the null check left out: main goes on to the diagnostics.
CheckNull_Missing ==
    /\ pc = "checkNull"
    /\ steps' = Append(steps, "checkNull")
    /\ exit' = exit
    /\ pc' = "checkDiag"
    /\ UNCHANGED <<argc, argv, Args, code, AST, out>>

\* CheckNull printing a message of its own before it returns 1.
CheckNull_Prints ==
    /\ pc = "checkNull"
    /\ steps' = Append(steps, "checkNull")
    /\ IF AST = <<>>
       THEN /\ exit' = <<1>>
            /\ pc' = "exited"
            /\ out' = Append(out, [by |-> "main", what |-> "message", at |-> Len(steps) + 1])
       ELSE exit' = exit /\ pc' = "checkDiag" /\ out' = out
    /\ UNCHANGED <<argc, argv, Args, code, AST>>

\* CheckNull parsing once more when the first parse gave no handle.
CheckNull_Retry ==
    /\ pc = "checkNull"
    /\ steps' = Append(steps, "checkNull")
    /\ IF AST = <<>>
       THEN IF Count("parse") < 2
            THEN exit' = exit /\ pc' = "parse"
            ELSE exit' = <<1>> /\ pc' = "exited"
       ELSE exit' = exit /\ pc' = "checkDiag"
    /\ UNCHANGED <<argc, argv, Args, code, AST, out>>

\* if (!AST) return 1;
CheckNull ==
    /\ pc = "checkNull"
    /\ steps' = Append(steps, "checkNull")
    /\ IF AST = <<>>
       THEN exit' = <<1>> /\ pc' = "exited"
       ELSE exit' = exit /\ pc' = "checkDiag"
    /\ UNCHANGED <<argc, argv, Args, code, AST, out>>

\* CheckDiag with the condition negated.
CheckDiag_Inverted ==
    /\ pc = "checkDiag"
    /\ steps' = Append(steps, "checkDiag")
    /\ IF AST = <<>>
       THEN exit' = exit /\ pc' = "crashed"
       ELSE IF ~hasUncompilableErrorOccurred(getDiagnostics(AST[1]))
            THEN exit' = <<1>> /\ pc' = "exited"
            ELSE exit' = exit /\ pc' = "dump"
    /\ UNCHANGED <<argc, argv, Args, code, AST, out>>

\* CheckDiag with the return left out: the result is ignored.
CheckDiag_NoBail ==
    /\ pc = "checkDiag"
    /\ steps' = Append(steps, "checkDiag")
    /\ IF AST = <<>>
       THEN exit' = exit /\ pc' = "crashed"
       ELSE exit' = exit /\ pc' = "dump"
    /\ UNCHANGED <<argc, argv, Args, code, AST, out>>

\* CheckDiag returning 0 where it bails out.
CheckDiag_ReturnsZero ==
    /\ pc = "checkDiag"
    /\ steps' = Append(steps, "checkDiag")
    /\ IF AST = <<>>
       THEN exit' = exit /\ pc' = "crashed"
       ELSE IF hasUncompilableErrorOccurred(getDiagnostics(AST[1]))
            THEN exit' = <<0>> /\ pc' = "exited"
            ELSE exit' = exit /\ pc' = "dump"
    /\ UNCHANGED <<argc, argv, Args, code, AST, out>>

\* CheckDiag bailing out on any diagnostic, warnings included.
CheckDiag_AnyDiagnostic ==
    /\ pc = "checkDiag"
    /\ steps' = Append(steps, "checkDiag")
    /\ IF AST = <<>>
       THEN exit' = exit /\ pc' = "crashed"
       ELSE IF getDiagnostics(AST[1]).warnings + getDiagnostics(AST[1]).errors > 0
            THEN exit' = <<1>> /\ pc' = "exited"
            ELSE exit' = exit /\ pc' = "dump"
    /\ UNCHANGED <<argc, argv, Args, code, AST, out>>

\* if (AST->getDiagnostics().hasUncompilableErrorOccurred()) return 1;
\* Dereferencing a null AST is undefined behaviour, taken here as a crash.
CheckDiag ==
    /\ pc = "checkDiag"
    /\ steps' = Append(steps, "checkDiag")
    /\ IF AST = <<>>
       THEN exit' = exit /\ pc' = "crashed"
       ELSE IF hasUncompilableErrorOccurred(getDiagnostics(AST[1]))
            THEN exit' = <<1>> /\ pc' = "exited"
            ELSE exit' = exit /\ pc' = "dump"
    /\ UNCHANGED <<argc, argv, Args, code, AST, out>>

\* AST->getASTContext().getTranslationUnitDecl()->dumpColor();
DumpAST ==
    /\ pc = "dump"
    /\ steps' = Append(steps, "dump")
    /\ IF AST = <<>>
       THEN out' = out /\ pc' = "crashed"
       ELSE /\ out' = Append(out, [by |-> "toolchain", what |-> "dump", at |-> Len(steps) + 1])
            /\ pc' = "return"
    /\ UNCHANGED <<argc, argv, Args, code, AST, exit>>

\* The closing brace of main: falling off the end returns 0.
Return ==
    /\ pc = "return"
    /\ steps' = Append(steps, "return")
    /\ exit' = <<0>>
    /\ pc' = "exited"
    /\ UNCHANGED <<argc, argv, Args, code, AST, out>>

Next ==
    \/ BuildArgs
    \/ BuildAST
    \/ CheckNull
    \/ CheckDiag
    \/ DumpAST
    \/ Return

Spec == Init /\ [][Next]_vars

\* main is one thread of straight-line code: once the parse call has returned,
\* each following statement is executed (the dump call returns as well).
FairSpec == Spec /\ WF_vars(CheckNull \/ CheckDiag \/ DumpAST \/ Return)

----------------------------------------------------------------------------
(* Properties. *)

\* The dump events written so far.
Dumps == {i \in DOMAIN out : out[i].what = "dump"}

\* main has got a handle and its diagnostics hold no uncompilable error.
Compilable == AST # <<>> /\ ~hasUncompilableErrorOccurred(getDiagnostics(AST[1]))

\* C1: in a run with a source argument where the parse call returned a handle
\* whose diagnostics report no uncompilable error, main goes on from the
\* diagnostics check to the dump, and the process exits with status 0 having
\* requested the dump exactly once.
C1_SuccessDumpsOnceExitsZero ==
    (argc >= 2 /\ Compilable /\ Count("checkDiag") = 1) =>
        /\ pc \in {"dump", "return", "exited"}
        /\ pc \in {"return", "exited"} => Count("dump") = 1 /\ Cardinality(Dumps) = 1
        /\ pc = "exited" => exit = <<0>>

C1_Witness ==
    argc >= 2 /\ Compilable /\ pc = "exited" /\ exit = <<0>> /\ Count("dump") = 1

\* C2: when the parse call returned no handle, the null check is the last
\* statement main executes: the process has exited with status 1, the
\* diagnostics check was never evaluated and no dump was requested.
C2_NullHandleExitsOne ==
    (AST = <<>> /\ Count("checkNull") = 1) =>
        /\ pc = "exited"
        /\ exit = <<1>>
        /\ steps[Len(steps)] = "checkNull"
        /\ Count("checkDiag") = 0
        /\ Count("dump") = 0
        /\ Dumps = {}

C2_Witness ==
    AST = <<>> /\ Count("checkNull") = 1 /\ pc = "exited" /\ code.kind = "str"

\* C3: when the parse call returned a handle whose diagnostics report an
\* uncompilable error, the diagnostics check ends the process with status 1
\* and no dump is requested.
C3_UncompilableExitsOne ==
    (/\ AST # <<>>
     /\ hasUncompilableErrorOccurred(getDiagnostics(AST[1]))
     /\ Count("checkDiag") = 1) =>
        /\ pc = "exited"
        /\ exit = <<1>>
        /\ steps[Len(steps)] = "checkDiag"
        /\ Count("dump") = 0
        /\ Dumps = {}

C3_Witness ==
    /\ AST # <<>>
    /\ hasUncompilableErrorOccurred(getDiagnostics(AST[1]))
    /\ pc = "exited"
    /\ code.kind = "str"

\* C4: in a run with a source argument the exit status is 0 or 1 and nothing
\* else, and once the process has exited the status is 0 exactly when the
\* dump was requested.
C4_StatusZeroIffDumped ==
    argc >= 2 =>
        /\ exit \in {<<>>, <<0>>, <<1>>}
        /\ pc = "exited" => exit \in {<<0>>, <<1>>} /\ (exit = <<0>> <=> Count("dump") = 1)

C4_Witness ==
    argc >= 2 /\ pc = "exited" /\ exit = <<1>> /\ AST # <<>> /\ Count("dump") = 0

\* C7: when the process has exited with status 1, everything written is
\* diagnostic text of the toolchain, written while main was inside the parse
\* call, before the null check and before the diagnostics check; main wrote
\* nothing itself.
C7_FailureOutputOnlyFromParse ==
    exit = <<1>> =>
        \A i \in DOMAIN out :
            /\ out[i].by = "toolchain"
            /\ out[i].what = "diagnostic"
            /\ steps[out[i].at] = "parse"
            /\ out[i].at < FirstAt("checkNull")
            /\ Count("checkDiag") > 0 => out[i].at < FirstAt("checkDiag")

C7_Witness ==
    exit = <<1>> /\ Len(out) > 0 /\ Count("checkDiag") = 1

\* C8: the parse call is made at most once in any run and exactly once in a
\* run that has ended; after a failure check has ended the process nothing
\* more happens; and once the parse call has returned the process reaches
\* exit 0 or exit 1.
C8_ParseOnceAndTerminates ==
    /\ [](Count("parse") <= 1)
    /\ [](pc = "exited" => Count("parse") = 1)
    /\ [][exit = <<1>> => UNCHANGED vars]_vars
    /\ (pc = "checkNull") ~> (pc = "exited" /\ exit \in {<<0>>, <<1>>})

C8_Witness ==
    pc = "exited" /\ exit = <<1>> /\ Count("parse") = 1 /\ AST = <<>>

\* C9: whatever argc is, main gets past the parse statement only by making
\* the parse call with argv[1] as the source text; no run ends before the
\* call, so none ends in a usage error.
C9_ParseCalledWhateverArgc ==
    pc \notin {"args", "parse"} =>
        /\ Count("parse") = 1
        /\ code = ArgvAt(1)
        /\ (argc < 2 => code.kind # "str")

C9_Witness ==
    argc < 2 /\ Count("parse") = 1 /\ code.kind = "null" /\ pc = "checkNull"

\* C10: warnings do not gate the dump: with the flags "-std=c++20" and "-Wall"
\* and a handle whose diagnostics hold warnings only, main goes on to the
\* dump and exits with status 0.
C10_WarningsDoNotGate ==
    (/\ Compilable
     /\ getDiagnostics(AST[1]).warnings > 0
     /\ getDiagnostics(AST[1]).errors = 0
     /\ Count("checkDiag") = 1) =>
        /\ Args = <<"-std=c++20", "-Wall">>
        /\ pc \in {"dump", "return", "exited"}
        /\ pc = "exited" => exit = <<0>> /\ Count("dump") = 1

C10_Witness ==
    /\ Compilable
    /\ getDiagnostics(AST[1]).warnings > 0
    /\ getDiagnostics(AST[1]).errors = 0
    /\ pc = "exited"
    /\ exit = <<0>>
    /\ Len(out) > 1

====
